---- MODULE Spec2Model ----
(***************************************************************************)
(* Specter expression engine: the AST produced by the Specter grammar, the *)
(* tree-walking SpecterEvaluator and the SpecterValidator with its type    *)
(* inference, as state machines over a parsed document.                    *)
(***************************************************************************)
EXTENDS Integers, Sequences, FiniteSets, TLC

VARIABLES
    model,        \* Model.expressions of the parsed document
    results,      \* what the last evaluateModel call returned
    evalCalls,    \* node paths on which evaluateExpression was entered, in order
    evalState,    \* "idle" | "returned" | "raised" : outcome of evaluateModel
    diagnostics,  \* what the validation acceptor received, in order
    checkState,   \* "idle" | "checkModel" | "registry" | "validateModel" | "raised" :
                  \* which validation ran last, or that it raised to its caller
    fault,        \* the top-level expression whose processing raised in that run, or 0
    source,       \* a logical expression as written: primaries separated by operators
    parsed,       \* what the last parser or text evaluator made of source
    worker,       \* MonacoLSPClient.worker is not null
    workers,      \* workers created and not terminated
    waiting,      \* initialize() calls in their one second wait before initializeLSP
    messageId,    \* MonacoLSPClient.messageId
    pendingRequests,  \* keys of MonacoLSPClient.pendingRequests
    timers,       \* requests whose 30 s timer has not fired yet
    settled,      \* per request id, the calls of its promise's resolve / reject, in order
    isConnected,  \* MonacoLSPClient.isConnected
    content,      \* the editor's content, as the number of changes made so far
    updateTimeout,    \* contents captured by the armed debounce callbacks
    destroyed,    \* ngOnDestroy ran
    sent,         \* contents posted to the worker as textDocument/didChange, in order
    applied       \* an operation of the evaluator and the literals it is applied to

documentVars == <<model, results, evalCalls, evalState, diagnostics, checkState, fault>>

parserVars == <<source, parsed>>

clientVars ==
    <<worker, workers, waiting, messageId, pendingRequests, timers, settled, isConnected>>

editorVars == <<content, updateTimeout, destroyed, sent>>

applyVars == <<applied>>

vars == <<documentVars, parserVars, clientVars, editorVars, applyVars>>

(***************************************************************************)
(* Bounds of the explored documents.                                       *)
(***************************************************************************)
MaxExprs == 2      \* top-level expressions of a multi-expression document
MaxParens == 2     \* nesting depth of ParenthesizedExpression wrappers
MaxArgs == 2       \* arguments of an enumerated FunctionCall
MaxOperands == 3   \* primaries of a written logical expression
MaxRequests == 2   \* requests the client issues
MaxChanges == 3    \* content changes made in the editor

(***************************************************************************)
(* Runtime values (JavaScript values the evaluator handles), tagged by     *)
(* kind.  Numbers are exact rationals n/d in lowest terms with d > 0.      *)
(***************************************************************************)
Null == [k |-> "null"]
NaN == [k |-> "nan"]
Bool(b) == [k |-> "boolean", b |-> b]
Str(s) == [k |-> "string", s |-> s]
Arr(xs) == [k |-> "array", items |-> xs]

Abs(x) == IF x < 0 THEN -x ELSE x

RECURSIVE Gcd(_, _)
Gcd(a, b) == IF b = 0 THEN a ELSE Gcd(b, a % b)

Reduced(p, q, g) == [k |-> "number", n |-> p \div g, d |-> q \div g]

Rat(p, q) == IF q < 0 THEN Reduced(-p, -q, Gcd(Abs(p), Abs(q)))
             ELSE Reduced(p, q, Gcd(Abs(p), Abs(q)))

Num(n) == Rat(n, 1)

(***************************************************************************)
(* AST nodes.  `type` is the node's $type; the grammar's rules that only   *)
(* call other rules (Expression, PrimaryExpression, Literal) create no     *)
(* node, so a node's $type is one of the seven below.  A FunctionCall      *)
(* without an argument list has no `arguments` property: it is modelled    *)
(* by the empty sequence (FunctionArguments holds at least one value).     *)
(***************************************************************************)
NumberLiteral(n) == [type |-> "NumberLiteral", value |-> n]
StringLiteral(s) == [type |-> "StringLiteral", value |-> s]
BooleanLiteral(b) == [type |-> "BooleanLiteral", value |-> b]
ArrayLiteral(vs) == [type |-> "ArrayLiteral", values |-> vs]
FunctionCall(name, args) == [type |-> "FunctionCall", name |-> name, arguments |-> args]
ParenthesizedExpression(e) == [type |-> "ParenthesizedExpression", expression |-> e]
LogicalExpression(l, op, r) ==
    [type |-> "LogicalExpression", left |-> l, operator |-> op, right |-> r]

HasRight(logical) == "right" \in DOMAIN logical

(***************************************************************************)
(* JavaScript operators used by the built-in implementations, over the     *)
(* value kinds null, boolean, number, nan and string.                      *)
(***************************************************************************)
Truthy(v) ==
    CASE v.k = "null" -> FALSE
      [] v.k = "nan" -> FALSE
      [] v.k = "boolean" -> v.b
      [] v.k = "number" -> v.n # 0
      [] v.k = "string" -> v.s # ""
      [] v.k = "array" -> TRUE

\* ToNumber: strings of the explored documents are never numeric text
ToNumber(v) ==
    CASE v.k = "number" -> v
      [] v.k = "nan" -> NaN
      [] v.k = "null" -> Num(0)
      [] v.k = "boolean" -> IF v.b THEN Num(1) ELSE Num(0)
      [] v.k = "string" -> IF v.s = "" THEN Num(0) ELSE NaN

\* ToString of a value that is concatenated to a string
ToStr(v) ==
    CASE v.k = "string" -> v.s
      [] v.k = "null" -> "null"
      [] v.k = "nan" -> "NaN"
      [] v.k = "boolean" -> IF v.b THEN "true" ELSE "false"
      [] v.k = "number" /\ v.d = 1 -> ToString(v.n)

\* a && b, a || b : the operand itself, not a coerced boolean
JsAnd(a, b) == IF Truthy(a) THEN b ELSE a
JsOr(a, b) == IF Truthy(a) THEN a ELSE b

\* a === b (NaN differs from itself; arrays compare by identity)
StrictEquals(a, b) == a.k \notin {"nan", "array"} /\ a = b

\* arithmetic and comparison of two ToNumber results x, y
NumAdd(x, y) ==
    IF x.k = "nan" \/ y.k = "nan" THEN NaN ELSE Rat(x.n * y.d + y.n * x.d, x.d * y.d)
NumSub(x, y) ==
    IF x.k = "nan" \/ y.k = "nan" THEN NaN ELSE Rat(x.n * y.d - y.n * x.d, x.d * y.d)
NumMul(x, y) ==
    IF x.k = "nan" \/ y.k = "nan" THEN NaN ELSE Rat(x.n * y.n, x.d * y.d)
\* a zero divisor that is not the number 0 (false, null, "") gives Infinity
\* or NaN, which the value domain folds into nan
NumDiv(x, y) ==
    IF x.k = "nan" \/ y.k = "nan" THEN NaN
    ELSE IF y.n = 0 THEN NaN
    ELSE Rat(x.n * y.d, x.d * y.n)
NumLess(x, y) == x.k # "nan" /\ y.k # "nan" /\ x.n * y.d < y.n * x.d

\* a + b : concatenation as soon as one operand is a string
JsAdd(a, b) ==
    IF a.k = "string" \/ b.k = "string" THEN Str(ToStr(a) \o ToStr(b))
    ELSE NumAdd(ToNumber(a), ToNumber(b))
JsSub(a, b) == NumSub(ToNumber(a), ToNumber(b))
JsMul(a, b) == NumMul(ToNumber(a), ToNumber(b))
JsDiv(a, b) == NumDiv(ToNumber(a), ToNumber(b))
\* a < b on operands that are not both strings
JsLess(a, b) == NumLess(ToNumber(a), ToNumber(b))

(***************************************************************************)
(* EvaluationResult, and the outcome of a call: a return or a throw.       *)
(***************************************************************************)
Success(value, type) == [value |-> value, type |-> type, success |-> TRUE]
\* a failure that loses its message
FailureWithoutMessage(message) == [value |-> Null, type |-> "error", success |-> FALSE]

Failure(message) == [value |-> Null, type |-> "error", success |-> FALSE, error |-> message]

Ret(r, calls) == [thrown |-> FALSE, result |-> r, calls |-> calls]
Throw(m, calls) == [thrown |-> TRUE, message |-> m, calls |-> calls]

(***************************************************************************)
(* SpecterEvaluator.functionRegistry: the built-in implementations.        *)
(* Each returns [thrown, value, type] or [thrown, message].                *)
(***************************************************************************)
EvaluatorFunctions ==
    <<"GreaterThan", "LessThan", "Equals", "Not", "Empty", "Contains",
      "add", "subtract", "multiply", "divide">>

ImplReturn(value, type) == [thrown |-> FALSE, value |-> value, type |-> type]
ImplThrow(message) == [thrown |-> TRUE, message |-> message]

Contained(items, v) == \E i \in 1..Len(items) : StrictEquals(items[i], v) \/ (items[i].k = "nan" /\ v.k = "nan")

implementation(name, args) ==
    CASE name = "GreaterThan" ->
            IF Len(args) # 2 THEN ImplThrow("GreaterThan expects 2 arguments")
            ELSE ImplReturn(Bool(JsLess(args[2], args[1])), "boolean")
      [] name = "LessThan" ->
            IF Len(args) # 2 THEN ImplThrow("LessThan expects 2 arguments")
            ELSE ImplReturn(Bool(JsLess(args[1], args[2])), "boolean")
      [] name = "Equals" ->
            IF Len(args) # 2 THEN ImplThrow("Equals expects 2 arguments")
            ELSE ImplReturn(Bool(StrictEquals(args[1], args[2])), "boolean")
      [] name = "Not" ->
            IF Len(args) # 1 THEN ImplThrow("Not expects 1 argument")
            ELSE ImplReturn(Bool(~Truthy(args[1])), "boolean")
      [] name = "Empty" ->
            IF Len(args) # 1 THEN ImplThrow("Empty expects 1 argument")
            ELSE ImplReturn(Bool(~Truthy(args[1])
                                 \/ (args[1].k = "array" /\ Len(args[1].items) = 0)), "boolean")
      [] name = "Contains" ->
            IF Len(args) # 2 THEN ImplThrow("Contains expects 2 arguments")
            ELSE IF args[1].k # "array" THEN ImplThrow("First argument must be an array")
            ELSE ImplReturn(Bool(Contained(args[1].items, args[2])), "boolean")
      [] name = "add" ->
            IF Len(args) # 2 THEN ImplThrow("add expects 2 arguments")
            ELSE ImplReturn(JsAdd(args[1], args[2]), "number")
      [] name = "subtract" ->
            IF Len(args) # 2 THEN ImplThrow("subtract expects 2 arguments")
            ELSE ImplReturn(JsSub(args[1], args[2]), "number")
      [] name = "multiply" ->
            IF Len(args) # 2 THEN ImplThrow("multiply expects 2 arguments")
            ELSE ImplReturn(JsMul(args[1], args[2]), "number")
      [] name = "divide" ->
            IF Len(args) # 2 THEN ImplThrow("divide expects 2 arguments")
            ELSE IF args[2] = Num(0) THEN ImplThrow("Division by zero")
            ELSE ImplReturn(JsDiv(args[1], args[2]), "number")

InRegistry(registry, name) == \E i \in 1..Len(registry) : registry[i] = name

(***************************************************************************)
(* SpecterEvaluator.  A node is addressed by its path: the index of the    *)
(* top-level expression, then child indexes (left = 1, right = 2, the      *)
(* inner expression of parentheses = 1, argument or element k = k).        *)
(* Every operator returns the call's outcome with the paths on which       *)
(* evaluateExpression was entered during the call.                         *)
(***************************************************************************)
RECURSIVE evaluateExpressionAt(_, _)
RECURSIVE evaluatePrimaryExpression(_, _)
RECURSIVE evaluateLiteral(_, _)
RECURSIVE evaluateFunctionCall(_, _)
RECURSIVE ConcatCalls(_, _)

\* values.map(expr => this.evaluateExpression(expr)) : one outcome per value
MapEvaluate(values, path) ==
    [i \in 1..Len(values) |-> evaluateExpressionAt(values[i], Append(path, i))]

ConcatCalls(outcomes, i) ==
    IF i > Len(outcomes) THEN <<>>
    ELSE outcomes[i].calls \o ConcatCalls(outcomes, i + 1)

\* the values of the outcomes of a map over evaluateExpression
Values(outcomes) == [i \in 1..Len(outcomes) |-> outcomes[i].result.value]

\* the array result built from the outcomes of the elements
ArrayOf(outcomes) == Ret(Success(Arr(Values(outcomes)), "array"), ConcatCalls(outcomes, 1))

evaluateLiteral(literal, path) ==
    IF literal.type = "NumberLiteral" THEN
        Ret(Success(Num(literal.value), "number"), <<>>)
    ELSE IF literal.type = "StringLiteral" THEN
        Ret(Success(Str(literal.value), "string"), <<>>)
    ELSE IF literal.type = "BooleanLiteral" THEN
        Ret(Success(Bool(literal.value), "boolean"), <<>>)
    ELSE IF literal.type = "ArrayLiteral" THEN
        ArrayOf(MapEvaluate(literal.values, path))
    ELSE Ret(Failure("Unknown literal type"), <<>>)

\* what evaluateFunctionCall makes of the implementation's result
Invoked(result, calls) ==
    IF result.thrown THEN Throw(result.message, calls)
    ELSE Ret(Success(result.value, result.type), calls)

\* evaluateFunctionCall once the arguments are evaluated
CallWith(call, outcomes) ==
    IF ~InRegistry(EvaluatorFunctions, call.name) THEN
        Ret(Failure("Unknown function: " \o call.name), ConcatCalls(outcomes, 1))
    ELSE Invoked(implementation(call.name, Values(outcomes)), ConcatCalls(outcomes, 1))

evaluateFunctionCall(call, path) == CallWith(call, MapEvaluate(call.arguments, path))

evaluatePrimaryExpression(primary, path) ==
    IF primary.type = "FunctionCall" THEN evaluateFunctionCall(primary, path)
    ELSE IF primary.type = "ParenthesizedExpression" THEN
        evaluateExpressionAt(primary.expression, Append(path, 1))
    ELSE IF primary.type = "Literal" THEN evaluateLiteral(primary, path)
    ELSE Ret(Failure("Unknown primary expression type"), <<>>)

\* the LogicalExpression branch once both operands are evaluated
Combine(logical, leftResult, rightResult, calls) ==
    IF ~rightResult.success THEN Ret(rightResult, calls)
    ELSE IF logical.operator = "AND" THEN
        Ret(Success(JsAnd(leftResult.value, rightResult.value), "boolean"), calls)
    ELSE IF logical.operator = "OR" THEN
        Ret(Success(JsOr(leftResult.value, rightResult.value), "boolean"), calls)
    ELSE Ret(leftResult, calls)

RECURSIVE AfterLeft(_, _, _)
RECURSIVE AfterRight(_, _, _)

\* the LogicalExpression branch once the right operand is evaluated
AfterRight(logical, left, right) ==
    Combine(logical, left.result, right.result, left.calls \o right.calls)

\* a branch that goes on to the right operand whatever the left one gave
AfterLeftThenRight(logical, path, left) ==
    IF HasRight(logical) THEN
        AfterRight(logical, left, evaluateExpressionAt(logical.right, Append(path, 2)))
    ELSE left

\* the LogicalExpression branch once the left operand is evaluated
AfterLeft(logical, path, left) ==
    IF ~left.result.success THEN left
    ELSE IF HasRight(logical) THEN
        AfterRight(logical, left, evaluateExpressionAt(logical.right, Append(path, 2)))
    ELSE left

\* the body of evaluateExpression's try block
EvaluateBody(expression, path) ==
    IF expression.type = "LogicalExpression" THEN
        AfterLeft(expression, path, evaluateExpressionAt(expression.left, Append(path, 1)))
    ELSE IF expression.type = "PrimaryExpression" THEN
        evaluatePrimaryExpression(expression, path)
    ELSE Ret(Failure("Unknown expression type"), <<>>)

\* the catch clause: a throw becomes a success:false result
Catch(outcome) ==
    IF outcome.thrown THEN Ret(Failure(outcome.message), outcome.calls) ELSE outcome

\* the call of evaluateExpression on the node at path is recorded
Entered(path, outcome) == [outcome EXCEPT !.calls = <<path>> \o @]

evaluateExpressionAt(expression, path) ==
    Entered(path, Catch(EvaluateBody(expression, path)))

evaluateExpression(expression) == evaluateExpressionAt(expression, <<>>)

\* the loop of evaluateModel, from the i-th top-level expression on; a throw
\* out of evaluateExpression would leave the loop and the method
RECURSIVE evaluateModelFrom(_, _, _)
RECURSIVE Pushed(_, _, _, _)

\* results.push(result) and the next iteration
\* a loop that stops at the first expression that fails
PushedUntilFailure(expressions, i, acc, outcome) ==
    IF outcome.thrown THEN [acc EXCEPT !.thrown = TRUE, !.calls = @ \o outcome.calls]
    ELSE IF ~outcome.result.success THEN
        [acc EXCEPT !.results = Append(@, outcome.result), !.calls = @ \o outcome.calls]
    ELSE evaluateModelFrom(expressions, i + 1,
             [acc EXCEPT !.results = Append(@, outcome.result),
                         !.calls = @ \o outcome.calls])

Pushed(expressions, i, acc, outcome) ==
    IF outcome.thrown THEN [acc EXCEPT !.thrown = TRUE, !.calls = @ \o outcome.calls]
    ELSE evaluateModelFrom(expressions, i + 1,
             [acc EXCEPT !.results = Append(@, outcome.result),
                         !.calls = @ \o outcome.calls])

evaluateModelFrom(expressions, i, acc) ==
    IF i > Len(expressions) THEN acc
    ELSE Pushed(expressions, i, acc, evaluateExpressionAt(expressions[i], <<i>>))

\* a loop that starts at the second expression
evaluateModelSkippingFirst(expressions) ==
    evaluateModelFrom(expressions, 2, [thrown |-> FALSE, results |-> <<>>, calls |-> <<>>])

evaluateModel(expressions) ==
    evaluateModelFrom(expressions, 1, [thrown |-> FALSE, results |-> <<>>, calls |-> <<>>])

(***************************************************************************)
(* SpecterValidator (specter-validation.ts): the signature registry, in    *)
(* registration order, and the checks.  A check returns the diagnostics it *)
(* hands to the acceptor, in order.                                        *)
(***************************************************************************)
Signature(name, parameterTypes, returnType) ==
    [name |-> name, parameters |-> parameterTypes, returnType |-> returnType]

ValidatorSignatures ==
    << Signature("GreaterThan", <<"number", "number">>, "boolean"),
       Signature("LessThan", <<"number", "number">>, "boolean"),
       Signature("Equals", <<"any", "any">>, "boolean"),
       Signature("Not", <<"boolean">>, "boolean"),
       Signature("Empty", <<"string">>, "boolean"),
       Signature("Contains", <<"array", "any">>, "boolean"),
       Signature("add", <<"number", "number">>, "number"),
       Signature("subtract", <<"number", "number">>, "number"),
       Signature("multiply", <<"number", "number">>, "number"),
       Signature("divide", <<"number", "number">>, "number"),
       Signature("Currency", <<"number", "string">>, "currency"),
       Signature("Duration", <<"number", "string">>, "duration") >>

\* Array.from(this.functionRegistry.keys())
ValidatorFunctions == [i \in 1..Len(ValidatorSignatures) |-> ValidatorSignatures[i].name]

\* this.functionRegistry.get(name), for a registered name
SignatureOf(name) ==
    ValidatorSignatures[CHOOSE i \in 1..Len(ValidatorSignatures) : ValidatorSignatures[i].name = name]

\* names.join(', ')
RECURSIVE Join(_, _)
Join(names, i) ==
    IF i > Len(names) THEN ""
    ELSE IF i = Len(names) THEN names[i]
    ELSE names[i] \o ", " \o Join(names, i + 1)

Diagnostic(severity, message, node, property) ==
    [severity |-> severity, message |-> message, node |-> node, property |-> property]

\* a message that names the function only
UnknownFunctionMessageShort(name) == "Unknown function '" \o name \o "'."

UnknownFunctionMessage(name) ==
    "Unknown function '" \o name \o "'. Available functions: " \o Join(ValidatorFunctions, 1)

NoType == "<null>"

RECURSIVE getExpressionType(_)
\* type inference that does not look inside parentheses
getExpressionTypeOutside(expression) ==
    IF expression.type = "ParenthesizedExpression" THEN NoType
    ELSE IF expression.type = "NumberLiteral" THEN "number"
    ELSE IF expression.type = "StringLiteral" THEN "string"
    ELSE IF expression.type = "BooleanLiteral" THEN "boolean"
    ELSE IF expression.type = "ArrayLiteral" THEN "array"
    ELSE IF expression.type = "LogicalExpression" THEN "boolean"
    ELSE NoType

\* type inference that gives a logical expression the type of its left operand
getExpressionTypeOfOperand(expression) ==
    IF expression.type = "NumberLiteral" THEN "number"
    ELSE IF expression.type = "StringLiteral" THEN "string"
    ELSE IF expression.type = "BooleanLiteral" THEN "boolean"
    ELSE IF expression.type = "ArrayLiteral" THEN "array"
    ELSE IF expression.type = "FunctionCall" THEN
        IF InRegistry(ValidatorFunctions, expression.name)
        THEN SignatureOf(expression.name).returnType
        ELSE NoType
    ELSE IF expression.type = "LogicalExpression" THEN getExpressionType(expression.left)
    ELSE IF expression.type = "ParenthesizedExpression" THEN
        getExpressionType(expression.expression)
    ELSE NoType

getExpressionType(expression) ==
    IF expression.type = "NumberLiteral" THEN "number"
    ELSE IF expression.type = "StringLiteral" THEN "string"
    ELSE IF expression.type = "BooleanLiteral" THEN "boolean"
    ELSE IF expression.type = "ArrayLiteral" THEN "array"
    ELSE IF expression.type = "FunctionCall" THEN
        IF InRegistry(ValidatorFunctions, expression.name)
        THEN SignatureOf(expression.name).returnType
        ELSE NoType
    ELSE IF expression.type = "LogicalExpression" THEN "boolean"
    ELSE IF expression.type = "ParenthesizedExpression" THEN
        getExpressionType(expression.expression)
    ELSE NoType

\* a comparison that knows no wildcard
isTypeCompatibleExact(actual, expected) == actual = expected

isTypeCompatible(actual, expected) == actual = expected \/ expected = "any"

\* value.replace(/"/g, '') : the STRING terminal admits no quote inside a
\* literal, so the converted value holds none to remove
RemoveQuotes(s) == s

ValidUnits == <<"DAYS", "WEEKS", "MONTHS", "YEARS">>

validateSpecificFunction(call, path) ==
    IF call.name = "Currency" /\ Len(call.arguments) >= 2 THEN
        LET currencyArg == call.arguments[2]
        IN  IF currencyArg.type = "StringLiteral" /\ Len(RemoveQuotes(currencyArg.value)) # 3
            THEN << Diagnostic("warning",
                               "Currency code should be 3 characters long (e.g., \"USD\")",
                               Append(path, 2), "value") >>
            ELSE <<>>
    ELSE IF call.name = "Duration" /\ Len(call.arguments) >= 2 THEN
        LET unitArg == call.arguments[2]
        IN  IF unitArg.type = "StringLiteral"
               /\ ~InRegistry(ValidUnits, RemoveQuotes(unitArg.value))
            THEN << Diagnostic("error",
                               "Invalid duration unit '" \o RemoveQuotes(unitArg.value)
                                   \o "'. Valid units: " \o Join(ValidUnits, 1),
                               Append(path, 2), "value") >>
            ELSE <<>>
    ELSE <<>>

RECURSIVE checkExpression(_, _)
RECURSIVE checkFunctionCall(_, _)
RECURSIVE CheckArguments(_, _, _, _)
RECURSIVE CheckEach(_, _, _)

\* for (const value of values) this.checkExpression(value, accept)
CheckEach(values, path, i) ==
    IF i > Len(values) THEN <<>>
    ELSE checkExpression(values[i], Append(path, i)) \o CheckEach(values, path, i + 1)

\* a plain comparison of the count with the declared parameter count
ArityDiagnosticsExact(call, signature, path) ==
    IF Len(call.arguments) # Len(signature.parameters) THEN
        << Diagnostic("error",
               "Function '" \o call.name \o "' expects "
                   \o ToString(Len(signature.parameters)) \o " arguments, got "
                   \o ToString(Len(call.arguments)) \o ".",
               path, "arguments") >>
    ELSE <<>>

\* signature.parameters.filter(p => !p.optional).length : no registered
\* signature declares an optional parameter
RequiredParams(signature) == Len(signature.parameters)

\* the validation of the parameter count
ArityDiagnostics(call, signature, path) ==
    IF Len(call.arguments) < Len(signature.parameters) THEN
        IF Len(call.arguments) < RequiredParams(signature) THEN
            << Diagnostic("error",
                   "Function '" \o call.name \o "' requires at least "
                       \o ToString(RequiredParams(signature)) \o " arguments, got "
                       \o ToString(Len(call.arguments)) \o ".",
                   path, "arguments") >>
        ELSE <<>>
    ELSE IF Len(call.arguments) > Len(signature.parameters) THEN
        << Diagnostic("error",
               "Function '" \o call.name \o "' expects at most "
                   \o ToString(Len(signature.parameters)) \o " arguments, got "
                   \o ToString(Len(call.arguments)) \o ".",
               path, "arguments") >>
    ELSE <<>>

MismatchMessage(name, i, expectedType, actualType) ==
    "Argument " \o ToString(i) \o " of '" \o name \o "' expects type '" \o expectedType
        \o "', got '" \o actualType \o "'."

TypeDiagnostic(call, path, i, expectedType, actualType) ==
    IF actualType # NoType /\ ~isTypeCompatible(actualType, expectedType)
    THEN << Diagnostic("error", MismatchMessage(call.name, i, expectedType, actualType),
                       Append(path, i), "") >>
    ELSE <<>>

\* the type check of argument i of the forEach over call.arguments.values
Mismatch(call, signature, path, i) ==
    IF i <= Len(signature.parameters)
    THEN TypeDiagnostic(call, path, i, signature.parameters[i],
                        getExpressionType(call.arguments[i]))
    ELSE <<>>

\* the forEach over call.arguments.values: the type check of argument
\* index, then the recursive validation of the argument
CheckArguments(call, signature, path, i) ==
    IF i > Len(call.arguments) THEN <<>>
    ELSE Mismatch(call, signature, path, i)
             \o checkExpression(call.arguments[i], Append(path, i))
             \o CheckArguments(call, signature, path, i + 1)

Resolved(call, signature, path) ==
    ArityDiagnostics(call, signature, path)
        \o CheckArguments(call, signature, path, 1)
        \o validateSpecificFunction(call, path)

checkFunctionCall(call, path) ==
    IF ~InRegistry(ValidatorFunctions, call.name) THEN
        << Diagnostic("error", UnknownFunctionMessage(call.name), path, "name") >>
    ELSE Resolved(call, SignatureOf(call.name), path)

checkLogicalExpression(logical, path) ==
    checkExpression(logical.left, Append(path, 1))
        \o (IF HasRight(logical) THEN checkExpression(logical.right, Append(path, 2))
            ELSE <<>>)

checkParenthesizedExpression(paren, path) ==
    checkExpression(paren.expression, Append(path, 1))

checkArrayLiteral(array, path) == CheckEach(array.values, path, 1)

checkExpression(expression, path) ==
    IF expression.type = "LogicalExpression" THEN checkLogicalExpression(expression, path)
    ELSE IF expression.type = "FunctionCall" THEN checkFunctionCall(expression, path)
    ELSE IF expression.type = "ParenthesizedExpression" THEN
        checkParenthesizedExpression(expression, path)
    ELSE IF expression.type = "ArrayLiteral" THEN checkArrayLiteral(expression, path)
    ELSE <<>>

checkModel(expressions) == CheckEach(expressions, <<>>, 1)

(***************************************************************************)
(* SpecterValidationRegistry: the checks registered per node type, run on  *)
(* the root and then on every node of the tree, parents before children.   *)
(***************************************************************************)
(***************************************************************************)
(* An internal fault while a top-level expression is processed: the call   *)
(* checkExpression(expression, accept) for expression number `at` raises.  *)
(***************************************************************************)
Accepted(diags) == [thrown |-> FALSE, diagnostics |-> diags]
Faulted(diags) == [thrown |-> TRUE, diagnostics |-> diags]

\* for (const expression of model.expressions) this.checkExpression(...)
RECURSIVE LoopFrom(_, _, _, _)
LoopFrom(expressions, i, at, diags) ==
    IF i > Len(expressions) THEN Accepted(diags)
    ELSE IF i = at THEN Faulted(diags)
    ELSE LoopFrom(expressions, i + 1, at, diags \o checkExpression(expressions[i], <<i>>))

\* checkModel of the second definition: no handler around the loop
checkModelWithFault(expressions, at) == LoopFrom(expressions, 1, at, <<>>)

(***************************************************************************)
(* The first definition of SpecterValidator in specter-validation.ts and   *)
(* its registered validation functions.                                    *)
(***************************************************************************)
RECURSIVE checkExpressionFirst(_, _)
RECURSIVE checkFunctionCallFirst(_, _)
RECURSIVE CheckArgumentsFirst(_, _, _, _)
RECURSIVE CheckEachFirst(_, _, _)

CheckEachFirst(values, path, i) ==
    IF i > Len(values) THEN <<>>
    ELSE checkExpressionFirst(values[i], Append(path, i)) \o CheckEachFirst(values, path, i + 1)

CheckArgumentsFirst(call, signature, path, i) ==
    IF i > Len(call.arguments) THEN <<>>
    ELSE Mismatch(call, signature, path, i)
             \o checkExpressionFirst(call.arguments[i], Append(path, i))
             \o CheckArgumentsFirst(call, signature, path, i + 1)

ResolvedFirst(call, signature, path) ==
    ArityDiagnostics(call, signature, path)
        \o CheckArgumentsFirst(call, signature, path, 1)
        \o validateSpecificFunction(call, path)

checkFunctionCallFirst(call, path) ==
    IF ~InRegistry(ValidatorFunctions, call.name) THEN
        << Diagnostic("error", UnknownFunctionMessage(call.name), path, "name") >>
    ELSE ResolvedFirst(call, SignatureOf(call.name), path)

checkParenthesizedExpressionFirst(paren, path) ==
    checkExpressionFirst(paren.expression, Append(path, 1))

checkArrayLiteralFirst(array, path) == CheckEachFirst(array.values, path, 1)

\* a logical operand that is itself a LogicalExpression is not visited
validatePrimaryExpression(expr, path) ==
    IF expr.type = "FunctionCall" THEN checkFunctionCallFirst(expr, path)
    ELSE IF expr.type = "ParenthesizedExpression" THEN
        checkParenthesizedExpressionFirst(expr, path)
    ELSE IF expr.type = "ArrayLiteral" THEN checkArrayLiteralFirst(expr, path)
    ELSE <<>>

checkLogicalExpressionFirst(logical, path) ==
    validatePrimaryExpression(logical.left, Append(path, 1))
        \o (IF HasRight(logical) THEN validatePrimaryExpression(logical.right, Append(path, 2))
            ELSE <<>>)

checkExpressionFirst(expression, path) ==
    IF expression.type = "LogicalExpression" THEN
        checkLogicalExpressionFirst(expression, path)
    ELSE IF expression.type = "FunctionCall" THEN checkFunctionCallFirst(expression, path)
    ELSE IF expression.type = "ParenthesizedExpression" THEN
        checkParenthesizedExpressionFirst(expression, path)
    ELSE IF expression.type = "ArrayLiteral" THEN checkArrayLiteralFirst(expression, path)
    ELSE <<>>

RECURSIVE LoopFromFirst(_, _, _, _)
LoopFromFirst(expressions, i, at, diags) ==
    IF i > Len(expressions) THEN Accepted(diags)
    ELSE IF i = at THEN Faulted(diags)
    ELSE LoopFromFirst(expressions, i + 1, at,
                       diags \o checkExpressionFirst(expressions[i], <<i>>))

\* catch (error) { ... } : logged, not re-thrown; what the acceptor received
\* before the fault stays received
Caught(outcome) == Accepted(outcome.diagnostics)

\* checkModel of the first definition: one try around the whole loop
checkModelFirst(expressions, at) == Caught(LoopFromFirst(expressions, 1, at, <<>>))

\* the registered Model check of the first definition
validateModel(expressions, at) == Caught(checkModelFirst(expressions, at))

RegisteredChecks(node, path) ==
    IF node.type = "FunctionCall" THEN checkFunctionCall(node, path)
    ELSE IF node.type = "LogicalExpression" THEN checkLogicalExpression(node, path)
    ELSE IF node.type = "ParenthesizedExpression" THEN checkParenthesizedExpression(node, path)
    ELSE IF node.type = "ArrayLiteral" THEN checkArrayLiteral(node, path)
    ELSE <<>>

\* the children of a node, with their child indexes
Children(node) ==
    IF node.type = "LogicalExpression" THEN
        IF HasRight(node) THEN <<node.left, node.right>> ELSE <<node.left>>
    ELSE IF node.type = "FunctionCall" THEN node.arguments
    ELSE IF node.type = "ParenthesizedExpression" THEN <<node.expression>>
    ELSE IF node.type = "ArrayLiteral" THEN node.values
    ELSE <<>>

RECURSIVE RunChecks(_, _)
RECURSIVE RunChecksEach(_, _, _)
RunChecksEach(nodes, path, i) ==
    IF i > Len(nodes) THEN <<>>
    ELSE RunChecks(nodes[i], Append(path, i)) \o RunChecksEach(nodes, path, i + 1)

RunChecks(node, path) ==
    RegisteredChecks(node, path) \o RunChecksEach(Children(node), path, 1)

validateDocument(expressions) ==
    checkModel(expressions) \o RunChecksEach(expressions, <<>>, 1)

(***************************************************************************)
(* The documents explored: every expression form of the grammar over a     *)
(* small vocabulary.                                                       *)
(***************************************************************************)
NumberValues == {0, 3, 5}
StringValues == {"US", "USD"}
Operators == {"AND", "OR"}

Tuples(S, lo, hi) == UNION {[1..n -> S] : n \in lo..hi}

RECURSIVE Parens(_, _)
Parens(e, n) == IF n = 0 THEN e ELSE ParenthesizedExpression(Parens(e, n - 1))

Atoms ==
    {NumberLiteral(n) : n \in NumberValues}
        \cup {StringLiteral(s) : s \in StringValues}
        \cup {BooleanLiteral(b) : b \in BOOLEAN}

FunctionNames ==
    {ValidatorFunctions[i] : i \in 1..Len(ValidatorFunctions)} \cup {"unknownFn"}

\* the examples the documentation names
Examples ==
    { NumberLiteral(42),
      FunctionCall("add", <<NumberLiteral(5), NumberLiteral(3)>>),
      FunctionCall("GreaterThan", <<NumberLiteral(10), NumberLiteral(5)>>),
      FunctionCall("divide", <<NumberLiteral(5), NumberLiteral(0)>>),
      FunctionCall("unknownFn", <<NumberLiteral(1), NumberLiteral(2)>>) }

SimpleCalls == {FunctionCall(f, a) : f \in FunctionNames, a \in Tuples(Atoms, 0, MaxArgs)}

\* operands of the composite forms
Operands ==
    { BooleanLiteral(TRUE), BooleanLiteral(FALSE), NumberLiteral(5),
      FunctionCall("unknownFn", <<>>) }

Core ==
    Operands \cup
    { FunctionCall("add", <<NumberLiteral(5), NumberLiteral(3)>>),
      FunctionCall("divide", <<NumberLiteral(5), NumberLiteral(0)>>) }

Logicals1 == {LogicalExpression(l, op, r) : l \in Operands, op \in Operators, r \in Operands}
Logicals2 == {LogicalExpression(l, op, r) : l \in Logicals1, op \in Operators, r \in Operands}

Parenthesized == {Parens(e, n) : e \in Core \cup Logicals1, n \in 1..MaxParens}

Arrays == {ArrayLiteral(vs) : vs \in Tuples(Core, 1, 2)}

\* second arguments of the constructor functions
CodeValues == {"US", "USD", "DAYS", "MONTHS", "days", "FOO"}

Constructors ==
    {FunctionCall(f, <<NumberLiteral(n), StringLiteral(s)>>) :
        f \in {"Currency", "Duration"}, n \in {5, 30, 100}, s \in CodeValues}

\* operands of the arithmetic and comparison functions
TypedOperands ==
    { NumberLiteral(5),
      FunctionCall("Currency", <<NumberLiteral(100), StringLiteral("USD")>>),
      FunctionCall("Duration", <<NumberLiteral(5), StringLiteral("MONTHS")>>) }

TypedCalls ==
    {FunctionCall(f, <<a, b>>) :
        f \in {"add", "subtract", "multiply", "divide", "GreaterThan", "LessThan"},
        a \in TypedOperands, b \in TypedOperands}

\* calls with one argument more than any signature declares
LongCalls ==
    {FunctionCall(f, <<NumberLiteral(5), StringLiteral("USD"), a>>) :
        f \in {"add", "Equals", "Currency", "Duration", "Not"}, a \in Atoms}

NestedArguments ==
    Core \cup {Parens(e, 1) : e \in Operands}
         \cup {ArrayLiteral(<<NumberLiteral(5)>>),
               LogicalExpression(NumberLiteral(5), "AND", NumberLiteral(3)),
               Parens(LogicalExpression(NumberLiteral(1), "AND", NumberLiteral(2)), 1),
               FunctionCall("Duration", <<NumberLiteral(30), StringLiteral("FOO")>>),
               FunctionCall("Currency", <<NumberLiteral(100), StringLiteral("US")>>)}

NestedCalls ==
    {FunctionCall(f, a) : f \in {"Not", "add", "Contains", "unknownFn"},
                          a \in Tuples(NestedArguments, 1, 2)}

\* logical expressions over literals of any type
MixedLogicals ==
    {LogicalExpression(l, op, r) : l \in Atoms \cup {NumberLiteral(1)}, op \in Operators,
                                   r \in Atoms \cup {StringLiteral("x")}}

Expressions ==
    Atoms \cup Examples \cup SimpleCalls \cup Logicals1 \cup Logicals2
          \cup Parenthesized \cup Arrays \cup NestedCalls
          \cup Constructors \cup TypedCalls \cup LongCalls \cup MixedLogicals

\* an expression beside the same expression in parentheses
ParenPairs == {<<e, Parens(e, n)>> : e \in Core \cup Logicals1, n \in 1..MaxParens}

Models ==
    {<<>>} \cup {<<e>> : e \in Expressions} \cup Tuples(Core, 2, MaxExprs) \cup ParenPairs

(***************************************************************************)
(* Parsing a written logical expression.  The text is a sequence of        *)
(* tokens: primaries at the odd positions, AND / OR between them.          *)
(***************************************************************************)
Primary(text) == [type |-> "PrimaryExpression", text |-> text]

\* specter-grammar.ts
\*   LogicalExpression:
\*     PrimaryExpression ({LogicalExpression.left=current}
\*                        operator=('AND' | 'OR') right=PrimaryExpression)*;
RECURSIVE LogicalExpressionLoop(_, _, _)
LogicalExpressionLoop(current, tokens, i) ==
    IF i > Len(tokens)
    THEN current
    ELSE LogicalExpressionLoop(
             LogicalExpression(current, tokens[i], Primary(tokens[i + 1])),
             tokens, i + 2)

LogicalExpressionRule(tokens) == LogicalExpressionLoop(Primary(tokens[1]), tokens, 2)

\* hello-world-grammar.ts
\*   LogicalExpression:
\*     AndExpression ({LogicalExpression.left=current} 'OR' right=AndExpression)*;
\*   AndExpression:
\*     AtomicExpression ({AndExpression.left=current} 'AND' right=AtomicExpression)*;
\* A rule answers the node it built and the position of the next token.
AndExpression(l, r) == [type |-> "AndExpression", left |-> l, right |-> r]

OrExpression(l, r) == [type |-> "LogicalExpression", left |-> l, right |-> r]

RECURSIVE AndExpressionLoop(_, _, _)
AndExpressionLoop(current, tokens, i) ==
    IF i <= Len(tokens) /\ tokens[i] = "AND"
    THEN AndExpressionLoop(AndExpression(current, Primary(tokens[i + 1])), tokens, i + 2)
    ELSE [node |-> current, next |-> i]

AndExpressionRule(tokens, i) == AndExpressionLoop(Primary(tokens[i]), tokens, i + 1)

RECURSIVE OrExpressionLoop(_, _, _)
OrExpressionStep(current, right, tokens) ==
    OrExpressionLoop(OrExpression(current, right.node), tokens, right.next)

OrExpressionLoop(current, tokens, i) ==
    IF i <= Len(tokens) /\ tokens[i] = "OR"
    THEN OrExpressionStep(current, AndExpressionRule(tokens, i + 1), tokens)
    ELSE current

OrExpressionStart(first, tokens) == OrExpressionLoop(first.node, tokens, first.next)

HelloWorldLogicalExpressionRule(tokens) ==
    OrExpressionStart(AndExpressionRule(tokens, 1), tokens)

\* ExpressionEvaluator (string based): expression.split(` ${operator} `)
RECURSIVE SplitFrom(_, _, _, _)
SplitFrom(tokens, operator, i, part) ==
    IF i > Len(tokens)
    THEN <<part>>
    ELSE IF tokens[i] = operator
         THEN <<part>> \o SplitFrom(tokens, operator, i + 1, <<>>)
         ELSE SplitFrom(tokens, operator, i + 1, Append(part, tokens[i]))

Split(tokens, operator) == SplitFrom(tokens, operator, 1, <<>>)

Includes(tokens, operator) == \E i \in 1..Len(tokens) : tokens[i] = operator

\* evaluateSimpleValue, on the texts 'true' and 'false'
evaluateSimpleValue(text) == text = "true"

\* ExpressionEvaluator.evaluateExpression and evaluateLogicalExpression
RECURSIVE evaluateText(_)
Every(answers) == \A k \in 1..Len(answers) : answers[k]

Some(answers) == \E k \in 1..Len(answers) : answers[k]

MapEvaluateText(parts) == [k \in 1..Len(parts) |-> evaluateText(parts[k])]

evaluateLogicalText(expression, operator) ==
    IF operator = "AND"
    THEN Every(MapEvaluateText(Split(expression, operator)))
    ELSE Some(MapEvaluateText(Split(expression, operator)))

evaluateText(expression) ==
    IF Includes(expression, "AND")
    THEN evaluateLogicalText(expression, "AND")
    ELSE IF Includes(expression, "OR")
         THEN evaluateLogicalText(expression, "OR")
         ELSE evaluateSimpleValue(expression[1])

\* the written expressions explored
PrimaryTexts == {"true", "false"}

RECURSIVE Written(_)
Written(n) ==
    IF n = 1
    THEN {<<p>> : p \in PrimaryTexts}
    ELSE {w \o <<op, p>> : w \in Written(n - 1), op \in Operators, p \in PrimaryTexts}

Sources == UNION {Written(n) : n \in 1..MaxOperands}

NotParsed == [by |-> "none", tree |-> <<>>, value |-> <<>>]

(***************************************************************************)
(* MonacoLSPClient and the editor component that owns it.                  *)
(***************************************************************************)
RequestIds == 1..MaxRequests

\* JSON-RPC responses a worker may post: { id, result } or { id, error }
Response(id, result) == [id |-> id, error |-> <<>>, result |-> result]

ErrorResponse(id, message) == [id |-> id, error |-> <<message>>, result |-> ""]

Responses ==
    {Response(id, r) : id \in 0..MaxRequests, r \in {"r1", "r2"}}
        \cup {ErrorResponse(id, m) : id \in 0..MaxRequests, m \in {"", "failed"}}

\* pending.resolve(message.result)
ResolvedWith(message) == [how |-> "resolved", with |-> message.result, by |-> message]

\* pending.reject(new Error(message.error.message || 'LSP Error'))
RejectedWith(message) ==
    [how |-> "rejected",
     with |-> (IF message.error[1] = "" THEN "LSP Error" ELSE message.error[1]),
     by |-> message]

\* reject(new Error(`Request timeout: ${method}`)) of the request's own timer
TimedOut(id) ==
    [how |-> "rejected", with |-> "Request timeout: initialize",
     by |-> [id |-> id, error |-> <<>>, result |-> "timer"]]

\* this.pendingRequests.delete(id): the entry is gone before the promise is settled
DeleteKeepingEntry(pending, id) == pending

Delete(pending, id) == pending \ {id}

\* handleMessage: if (message.error) pending.reject(...) else pending.resolve(...)
Settlement(message) == IF message.error # <<>> THEN RejectedWith(message) ELSE ResolvedWith(message)

\* the debounce of onDidChangeModelContent: clearTimeout, then setTimeout
RearmKeepingOld(armed, text) == armed \cup {text}

Rearm(armed, text) == {text}

\* operations of the evaluator applied to literal operands
NotApplied == [operation |-> "none", operands |-> <<>>]

Applications ==
    {[operation |-> o, operands |-> <<l, r>>] :
        o \in {EvaluatorFunctions[i] : i \in 1..Len(EvaluatorFunctions)} \cup Operators,
        l \in Atoms, r \in Atoms}

ClientIdle ==
    /\ worker = FALSE
    /\ workers = 0
    /\ waiting = 0
    /\ messageId = 0
    /\ pendingRequests = {}
    /\ timers = {}
    /\ settled = [id \in RequestIds |-> <<>>]
    /\ isConnected = FALSE
    /\ content = 0
    /\ updateTimeout = {}
    /\ destroyed = FALSE
    /\ sent = <<>>

(***************************************************************************)
(* The state machine: a parsed document, evaluated and validated.          *)
(***************************************************************************)
Init ==
    /\ ClientIdle
    /\ applied = NotApplied
    /\ source = <<>>
    /\ parsed = NotParsed
    /\ model \in Models
    /\ results = <<>>
    /\ evalCalls = <<>>
    /\ evalState = "idle"
    /\ diagnostics = <<>>
    /\ checkState = "idle"
    /\ fault = 0

\* evaluator.evaluateModel(model)
Returned(outcome) ==
    /\ results' = (IF outcome.thrown THEN <<>> ELSE outcome.results)
    /\ evalCalls' = outcome.calls
    /\ evalState' = (IF outcome.thrown THEN "raised" ELSE "returned")

EvaluateModel ==
    /\ Returned(evaluateModel(model))
    /\ UNCHANGED <<model, diagnostics, checkState, fault, parserVars, applyVars, clientVars, editorVars>>

\* validator.checkModel(model, accept)
CheckModel ==
    /\ diagnostics' = checkModel(model)
    /\ checkState' = "checkModel"
    /\ fault' = 0
    /\ UNCHANGED <<model, results, evalCalls, evalState, parserVars, applyVars, clientVars, editorVars>>

\* every registered check, on every node of its type
ValidateDocument ==
    /\ diagnostics' = validateDocument(model)
    /\ checkState' = "registry"
    /\ fault' = 0
    /\ UNCHANGED <<model, results, evalCalls, evalState, parserVars, applyVars, clientVars, editorVars>>

Checked(outcome, state, at) ==
    /\ diagnostics' = outcome.diagnostics
    /\ checkState' = (IF outcome.thrown THEN "raised" ELSE state)
    /\ fault' = at

\* validator.checkModel(model, accept) of the second definition, with a
\* fault while one of the expressions is processed
CheckModelFault ==
    \E at \in 1..Len(model) :
        /\ Checked(checkModelWithFault(model, at), "checkModel", at)
        /\ UNCHANGED <<model, results, evalCalls, evalState, parserVars, applyVars, clientVars, editorVars>>

\* validateModel(model, accept) of the first definition, with or without a
\* fault while one of the expressions is processed
ValidateModel ==
    \E at \in 0..Len(model) :
        /\ Checked(validateModel(model, at), "validateModel", at)
        /\ UNCHANGED <<model, results, evalCalls, evalState, parserVars, applyVars, clientVars, editorVars>>

Next == EvaluateModel \/ CheckModel \/ ValidateDocument \/ CheckModelFault \/ ValidateModel

Spec == Init /\ [][Next]_vars

(***************************************************************************)
(* The state machine: a written logical expression, parsed by either       *)
(* grammar or evaluated from its text.                                     *)
(***************************************************************************)
InitParse ==
    /\ ClientIdle
    /\ applied = NotApplied
    /\ source \in Sources
    /\ parsed = NotParsed
    /\ model = <<>>
    /\ results = <<>>
    /\ evalCalls = <<>>
    /\ evalState = "idle"
    /\ diagnostics = <<>>
    /\ checkState = "idle"
    /\ fault = 0

\* the parser generated from specter-grammar.ts
ParseSpecter ==
    /\ parsed' = [by |-> "specter-grammar", tree |-> LogicalExpressionRule(source),
                  value |-> <<>>]
    /\ UNCHANGED <<source, documentVars, clientVars, editorVars, applyVars>>

\* the parser generated from hello-world-grammar.ts
ParseHelloWorld ==
    /\ parsed' = [by |-> "hello-world-grammar",
                  tree |-> HelloWorldLogicalExpressionRule(source), value |-> <<>>]
    /\ UNCHANGED <<source, documentVars, clientVars, editorVars, applyVars>>

\* ExpressionEvaluator.evaluate(expression)
EvaluateText ==
    /\ parsed' = [by |-> "ExpressionEvaluator", tree |-> <<>>,
                  value |-> <<evaluateText(source)>>]
    /\ UNCHANGED <<source, documentVars, clientVars, editorVars, applyVars>>

NextParse == ParseSpecter \/ ParseHelloWorld \/ EvaluateText

SpecParse == InitParse /\ [][NextParse]_vars

(***************************************************************************)
(* The state machine: one operation of the evaluator, applied to the       *)
(* results of its literal operands.                                        *)
(***************************************************************************)
InitApply ==
    /\ applied \in Applications
    /\ ClientIdle
    /\ source = <<>>
    /\ parsed = NotParsed
    /\ model = <<>>
    /\ results = <<>>
    /\ evalCalls = <<>>
    /\ evalState = "idle"
    /\ diagnostics = <<>>
    /\ checkState = "idle"
    /\ fault = 0

\* the results of the operands, each a literal
OperandResults(operands) ==
    [k \in 1..Len(operands) |-> evaluateLiteral(operands[k], <<k>>)]

\* func.implementation(args) and the result evaluateFunctionCall makes of it
ApplyFunction ==
    /\ InRegistry(EvaluatorFunctions, applied.operation)
    /\ Returned([thrown |-> FALSE, calls |-> <<>>,
                 results |-> <<Catch(Invoked(implementation(applied.operation,
                                   Values(OperandResults(applied.operands))), <<>>)).result>>])
    /\ UNCHANGED <<model, diagnostics, checkState, fault>>
    /\ UNCHANGED <<parserVars, clientVars, editorVars, applyVars>>

\* the LogicalExpression branch once both operands gave a result
ApplyOperator ==
    /\ applied.operation \in Operators
    /\ Returned([thrown |-> FALSE, calls |-> <<>>,
                 results |-> <<Combine(LogicalExpression(applied.operands[1],
                                           applied.operation, applied.operands[2]),
                                       OperandResults(applied.operands)[1].result,
                                       OperandResults(applied.operands)[2].result,
                                       <<>>).result>>])
    /\ UNCHANGED <<model, diagnostics, checkState, fault>>
    /\ UNCHANGED <<parserVars, clientVars, editorVars, applyVars>>

NextApply == ApplyFunction \/ ApplyOperator

SpecApply == InitApply /\ [][NextApply]_vars

(***************************************************************************)
(* The state machine: the editor component and its language client.        *)
(***************************************************************************)
InitClient ==
    /\ ClientIdle
    /\ applied = NotApplied
    /\ source = <<>>
    /\ parsed = NotParsed
    /\ model = <<>>
    /\ results = <<>>
    /\ evalCalls = <<>>
    /\ evalState = "idle"
    /\ diagnostics = <<>>
    /\ checkState = "idle"
    /\ fault = 0

\* initialize(), up to its one second wait: a new worker replaces this.worker
Initialize ==
    /\ waiting + messageId < MaxRequests
    /\ worker' = TRUE
    /\ workers' = workers + 1
    /\ waiting' = waiting + 1
    /\ UNCHANGED <<messageId, pendingRequests, timers, settled, isConnected>>
    /\ UNCHANGED <<documentVars, parserVars, applyVars, editorVars>>

\* initializeLSP() after the wait: sendRequest('initialize', initParams)
SendRequest ==
    /\ waiting > 0
    /\ waiting' = waiting - 1
    /\ messageId' = messageId + 1
    /\ pendingRequests' = pendingRequests \cup {messageId + 1}
    /\ timers' = timers \cup {messageId + 1}
    /\ UNCHANGED <<worker, workers, settled, isConnected>>
    /\ UNCHANGED <<documentVars, parserVars, applyVars, editorVars>>

\* worker.onmessage -> handleMessage(message), and the continuation of
\* initializeLSP when the request was resolved
HandleMessage ==
    \E message \in Responses :
        /\ workers > 0
        /\ IF message.id \in pendingRequests
           THEN /\ pendingRequests' = Delete(pendingRequests, message.id)
                /\ settled' = [settled EXCEPT
                                  ![message.id] = Append(@, Settlement(message))]
                /\ isConnected' = (IF message.error # <<>> THEN isConnected ELSE TRUE)
           ELSE UNCHANGED <<pendingRequests, settled, isConnected>>
        /\ UNCHANGED <<worker, workers, waiting, messageId, timers>>
        /\ UNCHANGED <<documentVars, parserVars, applyVars, editorVars>>

\* the callback of the request's setTimeout(..., 30000)
Timeout(id) ==
    /\ id \in timers
    /\ timers' = timers \ {id}
    /\ IF id \in pendingRequests
       THEN /\ pendingRequests' = Delete(pendingRequests, id)
            /\ settled' = [settled EXCEPT ![id] = Append(@, TimedOut(id))]
       ELSE UNCHANGED <<pendingRequests, settled>>
    /\ UNCHANGED <<worker, workers, waiting, messageId, isConnected>>
    /\ UNCHANGED <<documentVars, parserVars, applyVars, editorVars>>

RequestTimeout == \E id \in RequestIds : Timeout(id)

\* dispose()
Disposing ==
    /\ worker' = FALSE
    /\ workers' = (IF worker THEN workers - 1 ELSE workers)
    /\ isConnected' = FALSE
    /\ pendingRequests' = {}
    /\ UNCHANGED <<waiting, messageId, timers, settled>>

Dispose ==
    /\ Disposing
    /\ UNCHANGED <<documentVars, parserVars, applyVars, editorVars>>

\* the listener of editor.onDidChangeModelContent
ContentChange ==
    /\ ~destroyed
    /\ content < MaxChanges
    /\ content' = content + 1
    /\ updateTimeout' = Rearm(updateTimeout, content + 1)
    /\ UNCHANGED <<destroyed, sent>>
    /\ UNCHANGED <<documentVars, parserVars, applyVars, clientVars>>

\* the debounce callback, 500 ms after it was armed: updateDocument
Debounced ==
    \E text \in updateTimeout :
        /\ updateTimeout' = updateTimeout \ {text}
        /\ sent' = (IF isConnected /\ worker THEN Append(sent, text) ELSE sent)
        /\ UNCHANGED <<content, destroyed>>
        /\ UNCHANGED <<documentVars, parserVars, applyVars, clientVars>>

\* ngOnDestroy
NgOnDestroy ==
    /\ ~destroyed
    /\ destroyed' = TRUE
    /\ updateTimeout' = {}
    /\ Disposing
    /\ UNCHANGED <<content, sent>>
    /\ UNCHANGED <<documentVars, parserVars, applyVars>>

NextClient ==
    \/ Initialize
    \/ SendRequest
    \/ HandleMessage
    \/ RequestTimeout
    \/ Dispose
    \/ ContentChange
    \/ Debounced
    \/ NgOnDestroy

SpecClient == InitClient /\ [][NextClient]_vars

\* timers that are armed eventually fire
SpecClientLive ==
    /\ SpecClient
    /\ \A id \in RequestIds : WF_vars(Timeout(id))
    /\ WF_vars(Debounced)

(***************************************************************************)
(* Properties.                                                             *)
(***************************************************************************)
Indexes == 1..Len(model)

IsLiteralNode(e) == e.type \in {"NumberLiteral", "StringLiteral", "BooleanLiteral"}

IsNumberCall(e, names) ==
    /\ e.type = "FunctionCall"
    /\ e.name \in names
    /\ Len(e.arguments) = 2
    /\ e.arguments[1].type = "NumberLiteral"
    /\ e.arguments[2].type = "NumberLiteral"

IsUnknownCall(e) == e.type = "FunctionCall" /\ ~InRegistry(ValidatorFunctions, e.name)

\* the expression inside all of its enclosing parentheses
RECURSIVE Unwrap(_)
Unwrap(e) == IF e.type = "ParenthesizedExpression" THEN Unwrap(e.expression) ELSE e

\* the nodes of a tree, each with its path and whether an ancestor is a
\* call of an unregistered function
RECURSIVE NodesAt(_, _, _)
NodesAt(e, path, below) ==
    {[node |-> e, path |-> path, belowUnknown |-> below]}
        \cup UNION {NodesAt(Children(e)[i], Append(path, i), below \/ IsUnknownCall(e))
                        : i \in 1..Len(Children(e))}

ModelNodes == UNION {NodesAt(model[i], <<i>>, FALSE) : i \in Indexes}

DiagnosticSet == {diagnostics[i] : i \in 1..Len(diagnostics)}

\* the paths of the top-level expressions among the recorded calls
RECURSIVE TopLevel(_, _)
TopLevel(calls, i) ==
    IF i > Len(calls) THEN <<>>
    ELSE (IF Len(calls[i]) = 1 THEN <<calls[i]>> ELSE <<>>) \o TopLevel(calls, i + 1)

\* C1: evaluateModel returns exactly one result per top-level expression, the
\* i-th result is the result of the i-th expression in source order, and the
\* top-level expressions are evaluated in that order (the empty Model gives
\* the empty list).
C1_OneResultPerExpression ==
    evalState = "returned" =>
        /\ Len(results) = Len(model)
        /\ TopLevel(evalCalls, 1) = [i \in Indexes |-> <<i>>]
        /\ \A i \in Indexes : results[i] = evaluateExpression(model[i]).result

C1_Witness ==
    /\ evalState = "returned"
    /\ Len(model) = 2
    /\ Len(results) = 2
    /\ model[1] # model[2]

\* C2: evaluateModel never raises to its caller, and the result reported for
\* top-level expression i is the one the expression gets when it is the only
\* expression of the Model, whatever the other expressions and their failures.
C2_FailuresIsolated ==
    /\ evalState # "raised"
    /\ evalState = "returned" =>
            /\ Len(results) = Len(model)
            /\ \A i \in Indexes : <<results[i]>> = evaluateModel(<<model[i]>>).results

C2_Witness ==
    /\ evalState = "returned"
    /\ Len(model) >= 2
    /\ Len(results) = Len(model)
    /\ ~results[1].success
    /\ model[1].type = "FunctionCall"
    /\ model[1].name = "divide"

\* C3: every result obeys the error-channel shape: success is false exactly
\* when type is 'error', every unsuccessful result carries an error message,
\* and no successful result carries type 'error' or an error message.
C3_ErrorChannelShape ==
    \A i \in 1..Len(results) :
        /\ results[i].success = FALSE <=> results[i].type = "error"
        /\ ~results[i].success => "error" \in DOMAIN results[i]
        /\ results[i].success => "error" \notin DOMAIN results[i]

C3_Witness ==
    /\ evalState = "returned"
    /\ \E i \in 1..Len(results) :
            ~results[i].success /\ results[i].type = "error" /\ results[i].error # ""

\* C4: a top-level literal node (NumberLiteral, StringLiteral, BooleanLiteral)
\* always evaluates successfully to the literal's value with its tag.
C4_LiteralsEvaluate ==
    evalState = "returned" =>
        \A i \in Indexes :
            /\ model[i].type = "NumberLiteral" =>
                    results[i] = Success(Num(model[i].value), "number")
            /\ model[i].type = "StringLiteral" =>
                    results[i] = Success(Str(model[i].value), "string")
            /\ model[i].type = "BooleanLiteral" =>
                    results[i] = Success(Bool(model[i].value), "boolean")

\* the built-in's result on two numbers
Expected(name, a, b) ==
    CASE name = "add" -> Success(Num(a + b), "number")
      [] name = "subtract" -> Success(Num(a - b), "number")
      [] name = "multiply" -> Success(Num(a * b), "number")
      [] name = "GreaterThan" -> Success(Bool(a > b), "boolean")
      [] name = "LessThan" -> Success(Bool(a < b), "boolean")
      [] name = "Equals" -> Success(Bool(a = b), "boolean")

\* C5: a top-level call of an arithmetic or comparison built-in with two
\* number literals succeeds with the built-in's result and declared tag
\* (add(5, 3) gives 8 'number', GreaterThan(10, 5) gives true 'boolean').
C5_BuiltinsOnNumbers ==
    evalState = "returned" =>
        \A i \in Indexes :
            IsNumberCall(model[i], {"add", "subtract", "multiply",
                                    "GreaterThan", "LessThan", "Equals"}) =>
                results[i] = Expected(model[i].name, model[i].arguments[1].value,
                                      model[i].arguments[2].value)

\* C6: divide(x, y) with a right operand of exactly 0 yields success:false,
\* type 'error' and the message Division by zero, for every left operand;
\* with a non-zero right operand it succeeds with tag 'number'.
C6_DivisionByZero ==
    evalState = "returned" =>
        \A i \in Indexes :
            IsNumberCall(model[i], {"divide"}) =>
                IF model[i].arguments[2].value = 0
                THEN /\ ~results[i].success
                     /\ results[i].type = "error"
                     /\ results[i].error = "Division by zero"
                ELSE results[i].success /\ results[i].type = "number"

\* the diagnostic the documentation shows for unknownFn
UnknownFnMessage ==
    "Unknown function 'unknownFn'. Available functions: GreaterThan, LessThan, Equals, Not, Empty, Contains, add, subtract, multiply, divide, Currency, Duration"

Reported(n) ==
    \E d \in DiagnosticSet :
        /\ d.severity = "error"
        /\ d.node = n.path
        /\ n.node.name = "unknownFn"
        /\ d.message = UnknownFnMessage

HoldsUnknownCall(e) ==
    \/ IsUnknownCall(e)
    \/ e.type = "LogicalExpression" /\ IsUnknownCall(e.left)
    \/ e.type = "ParenthesizedExpression" /\ IsUnknownCall(Unwrap(e))

UnknownCallIn(e) ==
    IF e.type = "LogicalExpression" THEN e.left ELSE Unwrap(e)

\* C8: evaluating a call of an unregistered function yields success:false,
\* type 'error' and the message Unknown function: <name>, whether the call is
\* at top level, an operand of a logical expression, or inside parentheses.
C8_UnknownFunctionFails ==
    evalState = "returned" =>
        \A i \in Indexes :
            HoldsUnknownCall(model[i]) =>
                results[i] = Failure("Unknown function: " \o UnknownCallIn(model[i]).name)

\* C9: no short-circuit: for a logical expression with a boolean literal on
\* the left (false AND ..., true OR ...) and a right operand, the right
\* operand is evaluated, and when the right operand is a call of an
\* unregistered function the whole expression yields that call's failure.
C9_NoShortCircuit ==
    evalState = "returned" =>
        \A i \in Indexes :
            /\ model[i].type = "LogicalExpression"
            /\ model[i].left.type = "BooleanLiteral"
            /\ HasRight(model[i])
            => /\ \E k \in 1..Len(evalCalls) : evalCalls[k] = <<i, 2>>
               /\ IsUnknownCall(model[i].right) =>
                      results[i] = Failure("Unknown function: " \o model[i].right.name)

\* the observable part of a result
Observed(r) == <<r.value, r.type, r.success>>

\* C10: parentheses are transparent: an expression inside any number of
\* parentheses has the inferred type of the bare expression, and beside the
\* bare expression in one Model it gets the same value, type and success.
C10_ParenthesesTransparent ==
    /\ \A i \in Indexes :
            getExpressionType(model[i]) = getExpressionType(Unwrap(model[i]))
    /\ evalState = "returned" =>
            \A i, j \in Indexes :
                Unwrap(model[i]) = Unwrap(model[j]) =>
                    Observed(results[i]) = Observed(results[j])

C10_Witness ==
    /\ evalState = "returned"
    /\ Len(model) = 2
    /\ model[1].type = "FunctionCall"
    /\ model[2] = ParenthesizedExpression(ParenthesizedExpression(model[1]))
    /\ getExpressionType(model[2]) = "number"
    /\ Observed(results[1]) = Observed(results[2])

\* the resolved calls that one checkModel walk reaches
CheckedCalls ==
    {n \in ModelNodes : /\ n.node.type = "FunctionCall"
                        /\ InRegistry(ValidatorFunctions, n.node.name)
                        /\ ~n.belowUnknown}

\* the diagnostics received for a node under a property
Received(path, property) ==
    {k \in 1..Len(diagnostics) :
        diagnostics[k].node = path /\ diagnostics[k].property = property}

ReceivedOnce(path, property, message) ==
    /\ Cardinality(Received(path, property)) = 1
    /\ \A k \in Received(path, property) :
           diagnostics[k].severity = "error" /\ diagnostics[k].message = message

ArityMessage(name, phrase, n, m) ==
    "Function '" \o name \o "' " \o phrase \o " " \o ToString(n) \o " arguments, got "
        \o ToString(m) \o "."

ArityReported(n, declared, supplied) ==
    IF supplied < declared THEN
        ReceivedOnce(n.path, "arguments",
                     ArityMessage(n.node.name, "requires at least", declared, supplied))
    ELSE IF supplied > declared THEN
        ReceivedOnce(n.path, "arguments",
                     ArityMessage(n.node.name, "expects at most", declared, supplied))
    ELSE Received(n.path, "arguments") = {}

\* C12: for a call that resolves to a signature with N parameters and
\* supplies M arguments, checkFunctionCall emits exactly one error
\* `requires at least N arguments, got M` when M < N, exactly one error
\* `expects at most N arguments, got M` when M > N, and no arity diagnostic
\* when M = N; a call without argument list supplies 0 arguments.
C12_ArityDiagnostics ==
    checkState = "checkModel" =>
        \A n \in CheckedCalls :
            ArityReported(n, Len(SignatureOf(n.node.name).parameters), Len(n.node.arguments))

C12_Witness ==
    /\ checkState = "checkModel"
    /\ Len(model) = 1
    /\ model[1].type = "FunctionCall"
    /\ model[1].name = "add"
    /\ Len(model[1].arguments) = 3
    /\ \E k \in 1..Len(diagnostics) :
           diagnostics[k].message = "Function 'add' expects at most 2 arguments, got 3."

C12_WitnessTooFew ==
    /\ checkState = "checkModel"
    /\ model = <<FunctionCall("Not", <<>>)>>
    /\ diagnostics = << Diagnostic("error", "Function 'Not' requires at least 1 arguments, got 0.",
                                    <<1>>, "arguments") >>

MismatchExpected(declared, k, actualType) ==
    /\ k <= Len(declared)
    /\ actualType # NoType
    /\ declared[k] # "any"
    /\ declared[k] # actualType

MismatchReported(n, declared, k, actualType) ==
    IF MismatchExpected(declared, k, actualType)
    THEN ReceivedOnce(Append(n.path, k), "",
             "Argument " \o ToString(k) \o " of '" \o n.node.name \o "' expects type '"
                 \o declared[k] \o "', got '" \o actualType \o "'.")
    ELSE Received(Append(n.path, k), "") = {}

\* C13: for a resolved call and every argument position k, the error
\* `Argument k of '<name>' expects type '<expected>', got '<actual>'` is
\* emitted exactly when k is covered by the signature, the argument's inferred
\* type is known, the declared type is not `any`, and the two differ.
C13_TypeMismatch ==
    checkState = "checkModel" =>
        \A n \in CheckedCalls :
            \A k \in 1..Len(n.node.arguments) :
                MismatchReported(n, SignatureOf(n.node.name).parameters, k,
                                 getExpressionType(n.node.arguments[k]))

C13_Witness ==
    /\ checkState = "checkModel"
    /\ model = <<FunctionCall("Not", <<NumberLiteral(5)>>)>>
    /\ diagnostics = << Diagnostic("error",
                           "Argument 1 of 'Not' expects type 'boolean', got 'number'.",
                           <<1, 1>>, "") >>

C13_WitnessAny ==
    /\ checkState = "checkModel"
    /\ model = <<FunctionCall("Equals", <<NumberLiteral(5), StringLiteral("USD")>>)>>
    /\ diagnostics = <<>>

\* the diagnostics received for the nodes of top-level expression j
ReceivedFor(j) == {d \in DiagnosticSet : d.node[1] = j}

DiagnosticsOf(diags) == {diags[k] : k \in 1..Len(diags)}

\* C11: validation never throws, and a fault while top-level expression i is
\* processed does not prevent the validation of its siblings: the diagnostics
\* of every other top-level expression are still reported.
C11_FaultsIsolated ==
    /\ checkState # "raised"
    /\ checkState = "validateModel" =>
           \A j \in Indexes \ {fault} :
               ReceivedFor(j) = DiagnosticsOf(checkExpressionFirst(model[j], <<j>>))

\* the type combinations the documentation lists for the polymorphic built-ins
Combinations(name) ==
    IF name \in {"add", "subtract", "GreaterThan", "LessThan"}
    THEN {<<"number", "number">>, <<"currency", "currency">>, <<"duration", "duration">>}
    ELSE {<<"number", "number">>, <<"currency", "number">>, <<"duration", "number">>}

IsPolymorphicCall(e) ==
    /\ e.type = "FunctionCall"
    /\ e.name \in {"add", "subtract", "multiply", "divide", "GreaterThan", "LessThan"}
    /\ Len(e.arguments) = 2

\* C14: a call of add, subtract, GreaterThan or LessThan is free of
\* type-mismatch errors exactly when its argument types are (number,number),
\* (currency,currency) or (duration,duration), and a call of multiply or
\* divide exactly when they are (number,number), (currency,number) or
\* (duration,number).
C14_PolymorphicBuiltins ==
    checkState = "checkModel" =>
        \A i \in Indexes :
            IsPolymorphicCall(model[i]) =>
                ( Received(<<i, 1>>, "") \cup Received(<<i, 2>>, "") = {}
                  <=> <<getExpressionType(model[i].arguments[1]),
                        getExpressionType(model[i].arguments[2])>>
                          \in Combinations(model[i].name) )

\* a document that consists of one constructor call on a number literal and
\* a string literal
IsConstructorDocument(name) ==
    /\ Len(model) = 1
    /\ model[1].type = "FunctionCall"
    /\ model[1].name = name
    /\ Len(model[1].arguments) = 2
    /\ model[1].arguments[1].type = "NumberLiteral"
    /\ model[1].arguments[2].type = "StringLiteral"

Validated == checkState \in {"checkModel", "registry"}

\* C15: validating a document that consists of the call Currency(n, s), with
\* s a string literal whose length is not 3, produces exactly one diagnostic,
\* of severity warning; when the length of s is 3 it produces no diagnostic.
C15_CurrencyCodeWarning ==
    Validated /\ IsConstructorDocument("Currency") =>
        IF Len(model[1].arguments[2].value) # 3
        THEN Len(diagnostics) = 1 /\ diagnostics[1].severity = "warning"
        ELSE diagnostics = <<>>

\* the structured values of the documentation
CurrencyValue(n, s) == [k |-> "currency", amount |-> Num(n), code |-> Str(s)]
DurationValue(n, u) == [k |-> "duration", amount |-> Num(n), unit |-> Str(u)]

\* C16: evaluating Currency(n, s) succeeds with tag 'currency' and the value
\* {amount: n, code: s}; evaluating Duration(n, u) succeeds with tag
\* 'duration' and the value {amount: n, unit: u}.
C16_ConstructorsEvaluate ==
    evalState = "returned" =>
        /\ IsConstructorDocument("Currency") =>
               results[1] = Success(CurrencyValue(model[1].arguments[1].value,
                                                  model[1].arguments[2].value), "currency")
        /\ IsConstructorDocument("Duration") =>
               results[1] = Success(DurationValue(model[1].arguments[1].value,
                                                  model[1].arguments[2].value), "duration")

\* C17: validating a document that consists of the call Duration(n, u), with
\* u a string literal that is not exactly DAYS, WEEKS, MONTHS or YEARS,
\* produces exactly one diagnostic, an error whose message cites the valid
\* units; when u is one of the four units no diagnostic is produced.
C17_DurationUnitError ==
    Validated /\ IsConstructorDocument("Duration") =>
        IF model[1].arguments[2].value \notin {"DAYS", "WEEKS", "MONTHS", "YEARS"}
        THEN /\ Len(diagnostics) = 1
             /\ diagnostics[1].severity = "error"
             /\ diagnostics[1].message =
                    "Invalid duration unit '" \o model[1].arguments[2].value
                        \o "'. Valid units: DAYS, WEEKS, MONTHS, YEARS"
        ELSE diagnostics = <<>>

LogicalNodes == {n \in ModelNodes : n.node.type = "LogicalExpression"}

IsLiteralOperation(e) ==
    /\ e.type = "LogicalExpression"
    /\ IsLiteralNode(e.left)
    /\ HasRight(e)
    /\ IsLiteralNode(e.right)

\* C18: a LogicalExpression never raises a diagnostic of its own and its
\* inferred type is 'boolean' whatever the types of its operands: a document
\* that is a logical expression over literals validates with no diagnostic,
\* no diagnostic other than a caller's type mismatch is attached to a logical
\* expression, and a logical expression passed in parentheses where a
\* boolean is expected gets no type-mismatch error.
C18_LogicalIsBoolean ==
    /\ \A n \in LogicalNodes : getExpressionType(n.node) = "boolean"
    /\ Validated =>
           /\ \A k \in 1..Len(diagnostics), n \in LogicalNodes :
                  diagnostics[k].node = n.path => diagnostics[k].property = ""
           /\ \A i \in Indexes : Received(<<i>>, "") = {}
           /\ Len(model) = 1 /\ IsLiteralOperation(model[1]) => diagnostics = <<>>
           /\ \A n \in CheckedCalls :
                  /\ n.node.name = "Not"
                  /\ Len(n.node.arguments) = 1
                  /\ n.node.arguments[1].type = "ParenthesizedExpression"
                  /\ Unwrap(n.node.arguments[1]).type = "LogicalExpression"
                  => Received(Append(n.path, 1), "") = {}

C18_Witness ==
    /\ checkState = "checkModel"
    /\ model = << FunctionCall("Not",
                     << ParenthesizedExpression(
                            LogicalExpression(NumberLiteral(1), "AND", NumberLiteral(2))) >>) >>
    /\ diagnostics = <<>>

C18_WitnessMixed ==
    /\ checkState = "registry"
    /\ model = << LogicalExpression(NumberLiteral(1), "AND", StringLiteral("x")) >>
    /\ diagnostics = <<>>

IsPrefix(p, q) == Len(p) <= Len(q) /\ SubSeq(q, 1, Len(p)) = p

\* the diagnostics received for the nodes of the subtree at a path, without
\* those the enclosing call reports on the subtree's root (the type mismatch,
\* and the code or unit check on a literal)
ReceivedWithin(path) ==
    {d \in DiagnosticSet :
        IsPrefix(path, d.node) /\ ~(d.node = path /\ d.property \in {"", "value"})}

\* the calls one checkModel walk enters, resolved or not
EnteredCalls == {n \in ModelNodes : n.node.type = "FunctionCall" /\ ~n.belowUnknown}

\* C19: validation is exhaustive: the diagnostics reported for a nested
\* argument expression are those the argument gets on its own, whether or
\* not the enclosing call is in error (unknown name, wrong argument count,
\* mismatched argument type).
C19_Exhaustive ==
    checkState = "checkModel" =>
        \A n \in EnteredCalls :
            \A k \in 1..Len(n.node.arguments) :
                ReceivedWithin(Append(n.path, k))
                    = DiagnosticsOf(checkExpression(n.node.arguments[k], Append(n.path, k)))

\* the catalog of the documentation
Catalog ==
    {"GreaterThan", "LessThan", "Equals", "Not", "Empty", "Contains",
     "add", "subtract", "multiply", "divide", "Currency", "Duration"}

Names(registry) == {registry[i] : i \in 1..Len(registry)}

\* C20: the validator and the evaluator work from the same fixed catalog in
\* every reachable state: the name of a call resolves in the validator's
\* registry if and only if it resolves in the evaluator's registry, and both
\* registries hold the twelve names of the catalog.
C20_SameCatalog ==
    /\ \A n \in ModelNodes :
           n.node.type = "FunctionCall" =>
               ( InRegistry(ValidatorFunctions, n.node.name)
                 <=> InRegistry(EvaluatorFunctions, n.node.name) )
    /\ Names(ValidatorFunctions) = Catalog
    /\ Names(EvaluatorFunctions) = Catalog

\* the operator a logical node was built for
OperatorOf(node) ==
    IF node.type = "AndExpression" THEN "AND"
    ELSE IF "operator" \in DOMAIN node THEN node.operator
    ELSE "OR"

\* how a tree groups its primaries: <<text>> or <<left, operator, right>>
RECURSIVE Grouping(_)
Grouping(node) ==
    IF node.type = "PrimaryExpression"
    THEN <<node.text>>
    ELSE <<Grouping(node.left), OperatorOf(node), Grouping(node.right)>>

\* strictly left to right: ((a op1 b) op2 c) ...
RECURSIVE LeftGrouped(_)
LeftGrouped(tokens) ==
    IF Len(tokens) = 1
    THEN <<tokens[1]>>
    ELSE << LeftGrouped(SubSeq(tokens, 1, Len(tokens) - 2)),
            tokens[Len(tokens) - 1],
            <<tokens[Len(tokens)]>> >>

RECURSIVE ValueOf(_)
ValueOf(grouping) ==
    IF Len(grouping) = 1 THEN grouping[1] = "true"
    ELSE IF grouping[2] = "AND"
         THEN ValueOf(grouping[1]) /\ ValueOf(grouping[3])
         ELSE ValueOf(grouping[1]) \/ ValueOf(grouping[3])

ParsedBy(parsers) == parsed.by \in parsers

\* C21: AND and OR share one precedence level and group strictly left to
\* right: whichever parser read the written expression, the tree groups
\* a op1 b op2 c as (a op1 b) op2 c, and the text evaluator's answer is the
\* value of that grouping.
C21_LeftToRight ==
    /\ ParsedBy({"specter-grammar", "hello-world-grammar"})
           => Grouping(parsed.tree) = LeftGrouped(source)
    /\ ParsedBy({"ExpressionEvaluator"})
           => parsed.value[1] = ValueOf(LeftGrouped(source))

\* the same, of the parser generated from specter-grammar.ts alone
C21_SpecterGrammarLeftToRight ==
    ParsedBy({"specter-grammar"}) => Grouping(parsed.tree) = LeftGrouped(source)

\* the same, of the parser generated from hello-world-grammar.ts alone
C21_HelloWorldLeftToRight ==
    ParsedBy({"hello-world-grammar"}) => Grouping(parsed.tree) = LeftGrouped(source)

\* the same, of the text evaluator alone
C21_TextEvaluatorLeftToRight ==
    ParsedBy({"ExpressionEvaluator"}) => parsed.value[1] = ValueOf(LeftGrouped(source))

Issued(id) == id <= messageId

IsSettled(id) == settled[id] # <<>>

\* what the promise of request id was settled with agrees with what settled it
SettledAsClaimed(id, s) ==
    /\ s.by.id = id
    /\ IF s.by.result = "timer"
       THEN s.how = "rejected" /\ s.with = "Request timeout: initialize"
       ELSE IF s.by.error # <<>>
            THEN /\ s.how = "rejected"
                 /\ s.with = (IF s.by.error[1] = "" THEN "LSP Error" ELSE s.by.error[1])
            ELSE s.how = "resolved" /\ s.with = s.by.result

SettledAtMostOnce ==
    \A id \in RequestIds :
        /\ Len(settled[id]) <= 1
        /\ id \in pendingRequests => Issued(id) /\ ~IsSettled(id)
        /\ IsSettled(id) => Issued(id) /\ SettledAsClaimed(id, settled[id][1])

FreshId ==
    messageId' # messageId
        => /\ messageId' = messageId + 1
           /\ messageId' \notin pendingRequests
           /\ ~IsSettled(messageId')
           /\ pendingRequests' = pendingRequests \cup {messageId'}

\* a promise is settled only by what takes its entry out of pendingRequests
OnlyPendingSettled ==
    settled' # settled
        => \E id \in pendingRequests \ pendingRequests' :
               /\ Len(settled'[id]) = Len(settled[id]) + 1
               /\ \A other \in RequestIds \ {id} : settled'[other] = settled[other]

\* C22: every request gets a fresh id and its promise is settled at most
\* once: resolved with the result of the response carrying its id, rejected
\* with that response's error, or rejected with Request timeout by its own
\* timer; a response whose id is not pending (late, duplicate or unknown)
\* settles nothing.
C22_SettledAtMostOnce ==
    /\ []SettledAtMostOnce
    /\ [][FreshId /\ OnlyPendingSettled]_vars

\* one request resolved by its response, the next rejected by its timer, and
\* both timers fired
C22_Witness ==
    /\ messageId = 2
    /\ IsSettled(1) /\ settled[1][1].how = "resolved"
    /\ IsSettled(2) /\ settled[2][1].with = "Request timeout: initialize"
    /\ timers = {}

Changes == 1..MaxChanges

\* at most one debounce callback is armed, for the latest content; what was
\* sent is in the order the contents were written, none of them twice
LatestOnly ==
    /\ updateTimeout \subseteq {content}
    /\ \A i \in 1..Len(sent) : sent[i] <= content
    /\ \A i, j \in 1..Len(sent) : i < j => sent[i] < sent[j]

\* a didChange carries the content of the last change, and is posted only by
\* a component that is not destroyed through a connected client
SendsLatest ==
    sent' # sent
        => /\ sent' = Append(sent, content)
           /\ isConnected
           /\ ~destroyed

\* an armed callback ends by posting its content, by being superseded by a
\* newer change, by ngOnDestroy, or unposted because the client is not connected
CallbackEnds(text) ==
    text \in updateTimeout /\ text \notin updateTimeout'
        => \/ sent' = Append(sent, text)
           \/ content' > text
           \/ destroyed'
           \/ ~(isConnected /\ worker)

\* C23: content changes are debounced: a burst of changes ends in exactly
\* one textDocument/didChange, posted after the last change of the burst
\* with that change's content; stale content is never posted after newer
\* content, and nothing is posted after ngOnDestroy or while the client is
\* not connected.
C23_Debounced ==
    /\ []LatestOnly
    /\ [][SendsLatest /\ \A text \in Changes : CallbackEnds(text)]_vars
    /\ \A text \in Changes : (text \in updateTimeout) ~> (text \notin updateTimeout)

\* the first change was posted alone, the second and third as one burst
C23_Witness == content = 3 /\ sent = <<1, 3>> /\ updateTimeout = {}

\* C30: every request issued by sendRequest is eventually settled, whatever
\* the interleaving of responses, timeouts and dispose(), given that armed
\* timers eventually fire.
C30_EventuallySettled ==
    \A id \in RequestIds : [](Issued(id) => <>IsSettled(id))

WasEntered(path) == \E k \in 1..Len(evalCalls) : evalCalls[k] = path

\* the logical nodes with both operands that evaluateModel entered and whose
\* left operand evaluates unsuccessfully
LeftFailed ==
    {n \in ModelNodes :
        /\ n.node.type = "LogicalExpression"
        /\ HasRight(n.node)
        /\ WasEntered(n.path)
        /\ ~evaluateExpression(n.node.left).result.success}

\* C24: when the left operand of a LogicalExpression evaluates
\* unsuccessfully, the expression's result is exactly the left operand's
\* failure and the right operand is not evaluated.
C24_LeftFailureReturned ==
    evalState = "returned" =>
        \A n \in LeftFailed :
            /\ WasEntered(Append(n.path, 1))
            /\ ~WasEntered(Append(n.path, 2))
            /\ Len(n.path) = 1
                   => results[n.path[1]] = evaluateExpression(n.node.left).result

C24_Witness ==
    /\ evalState = "returned"
    /\ \E n \in LeftFailed : Len(n.path) = 1 /\ ~results[n.path[1]].success
    /\ \E n \in LeftFailed : Len(n.path) > 1

\* the fault the evaluation of an expression ends in, "" when it has none:
\* a division by zero, a call of a function the evaluator does not register
FaultOf(e) ==
    IF IsNumberCall(e, {"divide"}) /\ e.arguments[2].value = 0 THEN "Division by zero"
    ELSE IF e.type = "FunctionCall" /\ ~InRegistry(EvaluatorFunctions, e.name)
         THEN "Unknown function: " \o e.name
    ELSE ""

\* expressions whose evaluation is settled by FaultOf: literals, calls on
\* number literals, calls of unregistered functions
IsPlain(e) ==
    \/ IsLiteralNode(e)
    \/ IsNumberCall(e, {"add", "divide"})
    \/ e.type = "FunctionCall" /\ ~InRegistry(EvaluatorFunctions, e.name)

RECURSIVE FirstFault(_, _)
FirstFault(es, i) ==
    IF i > Len(es) THEN ""
    ELSE IF FaultOf(es[i]) # "" THEN FaultOf(es[i])
    ELSE FirstFault(es, i + 1)

\* a call of a registered function with an argument that faults
HasFailedArgument(e) ==
    /\ e.type = "FunctionCall"
    /\ InRegistry(EvaluatorFunctions, e.name)
    /\ \A k \in 1..Len(e.arguments) : IsPlain(e.arguments[k])
    /\ FirstFault(e.arguments, 1) # ""

\* C25: a call with an argument that evaluates unsuccessfully is aborted with
\* that argument's failure: add(divide(5, 0), 5) yields success:false with
\* the Division by zero error.
C25_ArgumentFailureAborts ==
    evalState = "returned" =>
        \A i \in Indexes :
            HasFailedArgument(model[i]) =>
                results[i] = Failure(FirstFault(model[i].arguments, 1))

\* C26: an array literal evaluates to a result tagged 'array' that is
\* successful exactly when none of its elements faults; with an element
\* divide(5, 0) or a call of an unregistered function it is not successful.
C26_ArraySuccess ==
    evalState = "returned" =>
        \A i \in Indexes :
            /\ model[i].type = "ArrayLiteral"
            /\ \A k \in 1..Len(model[i].values) : IsPlain(model[i].values[k])
            => IF FirstFault(model[i].values, 1) = ""
               THEN results[i].success /\ results[i].type = "array"
               ELSE ~results[i].success

\* one pass of checkModel, of either definition, that ran to its end
OnePass == checkState \in {"checkModel", "validateModel"} /\ fault = 0

\* C27: one checkModel pass validates every call of the tree wherever it
\* occurs (top level, operand of a logical chain at any depth, argument,
\* array element, inside parentheses): every call of an unregistered
\* function in the document has its diagnostic.
C27_EveryCallValidated ==
    OnePass => \A n \in ModelNodes : IsUnknownCall(n.node) => Reported(n)

\* the same, of the second definition's checkModel alone
C27_SecondDefinition ==
    checkState = "checkModel" => \A n \in ModelNodes : IsUnknownCall(n.node) => Reported(n)

\* the same, of the first definition's checkModel alone
C27_FirstDefinition ==
    checkState = "validateModel" /\ fault = 0
        => \A n \in ModelNodes : IsUnknownCall(n.node) => Reported(n)

\* C28: when the registered checks run as the registry declares them (the
\* Model check on the root, the other checks on every node of their type),
\* no diagnostic with the same node and message is emitted twice.
C28_ReportedOnce ==
    checkState = "registry" =>
        \A i, j \in 1..Len(diagnostics) :
            i < j => ~( /\ diagnostics[i].node = diagnostics[j].node
                        /\ diagnostics[i].message = diagnostics[j].message )

\* the type tag of a result names the runtime kind of its value
TagAgrees(r) ==
    /\ r.type = "boolean" => r.value.k = "boolean"
    /\ r.type = "number" => r.value.k \in {"number", "nan"}
    /\ r.type = "string" => r.value.k = "string"
    /\ r.type = "array" => r.value.k = "array"

====
